---------------------------- MODULE Spec2Model ----------------------------
(***************************************************************************)
(* Pay-per-call execution pipeline of the decentralised API gateway:       *)
(*   - RuntimeExecutor.executeApi       (src/src/services/runtimeExecutor.js) *)
(*   - UsageMeteringService.logUsage    (src/src/services/UsageMetering.js)   *)
(*   - RedisService stream operations   (src/src/services/redis.js)           *)
(*   - BillingWorker loop and snapshots (src/src/services/UsageMetering.js)   *)
(*   - trackUsage middleware           (src/src/middleware/usageMetering.js) *)
(*   - GET /api/usage/metrics           (src/src/routes/auth.js)              *)
(* The parts are specified separately over the same variables: SpecExec    *)
(* and FairSpecExec (executor), SpecCost (calculateCost), SpecMetering and *)
(* SpecPricing (middleware, logUsage, pricing cache), SpecResponse         *)
(* (callbacks queued by res.send and res.json), SpecLifecycle              *)
(* (start and stop of the workers), SpecDelivery and SpecSnapshots         *)
(* (consumer group, billing loop, snapshot materialization), SpecMetrics   *)
(* and SpecExpiry (realtime metrics hashes, GET /metrics, time to live).   *)
(***************************************************************************)
EXTENDS Integers, Sequences, FiniteSets, TLC

(***************************************************************************)
(* Bounds of the model.                                                    *)
(***************************************************************************)
\* number of executeApi calls that may run concurrently
MaxCalls == 2

\* number of logUsage calls
MaxEvents == 2
\* hours of wall-clock time the model covers after midnight of day 0
MaxHour == 1
\* number of UsageSnapshot documents the collection may hold
MaxSnapshots == 3
\* number of BillingWorker instances (one per server process)
NumWorkers == 2
\* number of processLoop coroutines that may be alive at once
MaxLoops == 2
\* minutes of wall-clock time the metering front end is observed for
MaxMinute == 6
\* half hours of wall-clock time the metrics hashes are observed for
MaxHalfHours == 3

(***************************************************************************)
(* Program constants.                                                      *)
(***************************************************************************)
MinutesPerHour == 60
HoursPerDay == 24
\* this.batchSize
BatchSize == 100
\* pipeline.expire(key, 3600): seconds
ExpireSeconds == 3600
SecondsPerMinute == 60

Calls == 1..MaxCalls
Workers == 1..NumWorkers
Loops == 1..MaxLoops
Users == {"u1"}
Apis == {"a1", "a2"}
\* the calls that are metered: (userId, apiId, statusCode of the response)
CallContexts == {<<"u1", "a1", 200>>, <<"u1", "a1", 500>>, <<"u1", "a2", 200>>}
\* values uuidv4() can return
ExecutionIds == 1..MaxCalls

VARIABLES
    \* ---- RuntimeExecutor ----
    epc,          \* position of each executeApi call
    executionId,  \* executionId of each call (0 before uuidv4())
    exitKind,     \* how the container of the call exited ("none" before)
    errorAt,      \* the step whose exception is being propagated ("none")
    result,       \* value the call resolved to (NoResult before)
    workspaces,   \* temp directories api-exec-<id> that exist on disk
    images,       \* image tags api-exec-<id> that exist in the docker daemon
    containers,   \* container names api-exec-<id> that exist in the daemon
    \* ---- wall clock, MongoDB collections ----
    now,          \* wall clock, in minutes since midnight of day 0
    usageLogs,    \* UsageLog collection: sequence of saved UsageRecords
    snapshots,    \* UsageSnapshot collection: sequence of saved snapshots
    \* ---- Redis: stream 'usage_logs', its consumer group, metrics hashes ----
    publishing,   \* logUsage calls between usageLog.save() and xadd (record indices)
    stream,       \* entries of the stream; the id of an entry is its index
    groupExists,  \* consumer group 'billing_worker' exists
    lastDelivered,\* last-delivered-id of the group
    pending,      \* pending entries list of the group (ids)
    metrics,      \* metrics:<userId>:<apiId> hashes
    \* ---- BillingWorker instances and their processLoop coroutines ----
    isRunning,    \* this.isRunning of each worker instance
    starting,     \* start() calls of each worker awaiting createConsumerGroup
    owner,        \* worker instance a loop coroutine belongs to (0: free slot)
    lpc,          \* position of each loop coroutine
    batch,        \* ids of the batch a loop read and has not yet gone through
    calledAt,     \* `now` read at the entry of the snapshot pass in progress
    \* ---- history (not program state) ----
    acked,        \* ids for which xack completed
    updatedOk,    \* ids whose updateRealTimeMetrics completed without throwing
    updateThrew,  \* ids whose processMessage threw
    readAfterAck, \* an XREADGROUP returned entries after some entry was acked
    \* ---- UsageMeteringService.calculateCost called on its own ----
    costArgs,     \* arguments of the calculateCost call
    costResult,   \* value the call returned (NoCost before)
    \* ---- trackUsage middleware, logUsage calls, pricing cache ----
    mpc,          \* position of each metered request
    mctx,         \* call context of the request (NoContext before res.send)
    sent,         \* status code handed to the original res.send (0 before)
    mlog,         \* logData built by the logUsage call of the request
    pricingCache, \* this.pricingCache: apiId -> entry {pricing, timestamp}
    logOutcome,   \* what the logUsage promise of the request settled to
    unhandled,    \* requests whose metering error escaped the middleware
    \* ---- history of the logUsage calls (not program state) ----
    ageAtCall,    \* age of the cache entry getApiPricing found (-1: none)
    lookedUp,     \* getApiPricing of the request issued Api.findById
    refreshedAt,  \* clock at which the lookup of the request cached (-1)
    pricingOf,    \* pricing getApiPricing returned to the request
    writes,       \* usageLog.save() calls of the request that completed
    appends,      \* XADDs of the request that completed
    \* ---- history of the start() calls (not program state) ----
    noopStarts,   \* workers on which a start() call returned at its
                  \* isRunning check
    recording,    \* the two histories below are kept (a specification
                  \* that does not look at them leaves them alone)
    lastCall,     \* the latest of start() and stop() called on each worker
    startFailures,\* workers on which a start() call rejected
    \* ---- Redis: time to live of the metrics hashes; the pipelines of
    \*      updateRealTimeMetrics; GET /api/usage/metrics ----
    expiresAt,    \* clock at which each metrics key expires (NoTtl: none)
    ppc,          \* commands of the pipeline of each loop the server has run
    response,     \* body of the latest GET /metrics response
    \* ---- history of the metrics hashes (not program state) ----
    lapsed,       \* keys whose time to live has run out at some time
    overlapped,   \* keys two pipelines were updating at once
    \* ---- history of the responses that went through trackUsage ----
    callbacks,    \* logging callbacks queued with setImmediate for each response
    logUsageCalls \* logUsage calls made for each response

\* state of the metering front end (pricing, cost, logUsage calls)
costVars == <<costArgs, costResult>>

trackVars == <<mpc, mctx, sent, mlog, pricingCache, logOutcome, unhandled,
               ageAtCall, lookedUp, refreshedAt, pricingOf, writes, appends,
               callbacks, logUsageCalls>>

lifeVars == <<noopStarts, recording, lastCall, startFailures>>

hashVars == <<expiresAt, ppc, response, lapsed, overlapped>>

meterVars == <<costVars, trackVars, lifeVars, hashVars>>

execVars == <<epc, executionId, exitKind, errorAt, result,
              workspaces, images, containers>>

\* the consumer group, the workers and their loops
workerVars == <<snapshots, publishing, groupExists, lastDelivered, pending,
                metrics, isRunning, starting, owner, lpc, batch, calledAt,
                acked, updatedOk, updateThrew, readAfterAck>>

pipelineVars == <<now, usageLogs, stream, workerVars>>

billingVars == <<pipelineVars, meterVars>>

vars == <<execVars, billingVars>>

(***************************************************************************)
(* Initial state of the metering and billing pipeline: empty collections,  *)
(* empty stream, no consumer group, every worker Stopped                   *)
(***************************************************************************)
\* a key that does not exist: HGETALL answers no field
EmptyHash == [f \in {} |-> 0]

InitBilling ==
    /\ usageLogs = <<>>
    /\ snapshots = <<>>
    /\ publishing = {}
    /\ stream = <<>>
    /\ groupExists = FALSE
    /\ lastDelivered = 0
    /\ pending = {}
    /\ metrics = [k \in Users \X Apis |-> EmptyHash]
    /\ isRunning = [w \in Workers |-> FALSE]
    /\ starting = [w \in Workers |-> 0]
    /\ owner = [l \in Loops |-> 0]
    /\ lpc = [l \in Loops |-> "none"]
    /\ batch = [l \in Loops |-> <<>>]
    /\ calledAt = [l \in Loops |-> 0]
    /\ acked = {}
    /\ updatedOk = {}
    /\ updateThrew = {}
    /\ readAfterAck = FALSE

(***************************************************************************)
(* UsageMeteringService.calculateCost                                      *)
(* Amounts of money are exact: a price is a whole number of quarters of a  *)
(* millionth of a dollar (0.00000025), a cost a whole number of millionths.*)
(***************************************************************************)
\* `duration / 1000`
MsPerSecond == 1000
\* `(bytesIn + bytesOut) / 1024`
BytesPerKB == 1024
\* least common denominator of the two quotients
CommonDenominator == MsPerSecond * (BytesPerKB \div 8)

\* Math.round(x) for x = n / d >= 0: the nearest integer, halves upwards
MathRound(n, d) == (2 * n + d) \div (2 * d)

\* the pricing object getApiPricing builds: {basePrice: 0.001,
\* durationPrice: 0.0001, dataPrice: 0.000001}
DefaultPricing == [basePrice |-> 4000, durationPrice |-> 400, dataPrice |-> 4]

\* (mutant: the sum is truncated to 6 decimals instead of rounded)
CalculateCostTruncated(pricing, duration, bytesIn, bytesOut) ==
    LET n == pricing.basePrice * CommonDenominator
             + duration * pricing.durationPrice * (CommonDenominator \div MsPerSecond)
             + (bytesIn + bytesOut) * pricing.dataPrice * (CommonDenominator \div BytesPerKB)
    IN  n \div (4 * CommonDenominator)

\* (mutant: the base price is left out of the sum)
CalculateCostNoBase(pricing, duration, bytesIn, bytesOut) ==
    LET n == duration * pricing.durationPrice * (CommonDenominator \div MsPerSecond)
             + (bytesIn + bytesOut) * pricing.dataPrice * (CommonDenominator \div BytesPerKB)
    IN  MathRound(n, 4 * CommonDenominator)

\* calculateCost: Math.round((baseCost + durationCost + dataCost) * 1000000),
\* the cost in millionths of a dollar
CalculateCost(pricing, duration, bytesIn, bytesOut) ==
    LET n == pricing.basePrice * CommonDenominator
             + duration * pricing.durationPrice * (CommonDenominator \div MsPerSecond)
             + (bytesIn + bytesOut) * pricing.dataPrice * (CommonDenominator \div BytesPerKB)
    IN  MathRound(n, 4 * CommonDenominator)

\* arguments calculateCost is called with
BasePrices == {0, 1, 2, 4, 6, 4000}
DurationPrices == {0, 1, 400}
DataPrices == {0, 4}
Durations == {0, 1, 150, 1000}
BytesIn == {0, 1024}
BytesOut == {0, 512}

CostInputs ==
    [pricing : [basePrice : BasePrices, durationPrice : DurationPrices,
                dataPrice : DataPrices],
     duration : Durations, bytesIn : BytesIn, bytesOut : BytesOut]

NoCost == -1

InitCostIdle ==
    /\ costArgs = [pricing |-> DefaultPricing, duration |-> 0, bytesIn |-> 0, bytesOut |-> 0]
    /\ costResult = NoCost


(***************************************************************************)
(* State of the trackUsage middleware and of UsageMeteringService          *)
(***************************************************************************)
\* requests that go through trackUsage; each makes one logUsage call
Requests == 1..MaxEvents

\* this.cacheExpiry = 5 * 60 * 1000, in minutes
CacheExpiry == 5

\* durations res.send measures, in ms
MeterDurations == {0, 150}
\* what calculateRequestSize and calculateResponseSize return for the
\* requests and responses of the model
RequestSize == 1024
ResponseSize == 512

NoContext == [userId |-> "", apiId |-> "", statusCode |-> 0, duration |-> 0]

MeterContexts ==
    {[userId |-> c[1], apiId |-> c[2], statusCode |-> c[3], duration |-> d]
        : c \in CallContexts, d \in MeterDurations}

NoLog == [apiId |-> "", userId |-> "", timestamp |-> 0, statusCode |-> 0,
          executionId |-> 0, cost |-> NoCost]

NoPricing == [basePrice |-> 0, durationPrice |-> 0, dataPrice |-> 0]

\* absent entry of the pricing cache
NoEntry == [pricing |-> NoPricing, timestamp |-> -1]

\* a promise that has not settled
Unsettled == [kind |-> "pending", error |-> "none"]

InitTrack ==
    /\ mpc = [r \in Requests |-> "idle"]
    /\ mctx = [r \in Requests |-> NoContext]
    /\ sent = [r \in Requests |-> 0]
    /\ mlog = [r \in Requests |-> NoLog]
    /\ pricingCache = [a \in Apis |-> NoEntry]
    /\ logOutcome = [r \in Requests |-> Unsettled]
    /\ unhandled = {}
    /\ ageAtCall = [r \in Requests |-> -1]
    /\ lookedUp = [r \in Requests |-> FALSE]
    /\ refreshedAt = [r \in Requests |-> -1]
    /\ pricingOf = [r \in Requests |-> NoPricing]
    /\ writes = [r \in Requests |-> 0]
    /\ appends = [r \in Requests |-> 0]
    /\ callbacks = [r \in Requests |-> 0]
    /\ logUsageCalls = [r \in Requests |-> 0]

InitLife ==
    /\ noopStarts = {}
    /\ lastCall = [w \in Workers |-> "none"]
    /\ startFailures = {}

\* no time to live without a key
NoTtl == -1

NoResponse == [key |-> <<"", "">>, metrics |-> EmptyHash]

\* no metrics key exists, no pipeline is being run, no GET /metrics was
\* answered
InitHash ==
    /\ expiresAt = [k \in Users \X Apis |-> NoTtl]
    /\ ppc = [l \in Loops |-> 0]
    /\ response = NoResponse
    /\ lapsed = {}
    /\ overlapped = {}

InitMeter == InitCostIdle /\ InitTrack /\ InitLife /\ recording = FALSE /\ InitHash

\* usageMeteringService.calculateCost(pricing, duration, bytesIn, bytesOut)
CalculateCostCall ==
    /\ costResult = NoCost
    /\ costResult' = CalculateCost(costArgs.pricing, costArgs.duration,
                                   costArgs.bytesIn, costArgs.bytesOut)
    /\ UNCHANGED <<costArgs, trackVars, lifeVars, hashVars, pipelineVars, execVars>>

(***************************************************************************)
(* RuntimeExecutor                                                         *)
(***************************************************************************)
NoResult == [success |-> FALSE, executionId |-> 0, error |-> "unset"]

\* exits of the container process: normal end, tenant code threw (or was
\* killed at the memory ceiling), the `timeout` wrapper of run.sh killed it
ExitKinds == {"ok", "crash", "timeout"}

\* result.StatusCode of container.wait()
StatusCode(k) ==
    CASE k = "ok"      -> 0
      [] k = "crash"   -> 1
      [] k = "timeout" -> 124

\* the object returned by the try block of executeApi
SuccessResult(id) == [success |-> TRUE, executionId |-> id, error |-> "none"]

\* the object returned by the catch block of executeApi
FailureResult(id, msg) == [success |-> FALSE, executionId |-> id, error |-> msg]

InitExec ==
    /\ epc = [c \in Calls |-> "idle"]
    /\ executionId = [c \in Calls |-> 0]
    /\ exitKind = [c \in Calls |-> "none"]
    /\ errorAt = [c \in Calls |-> "none"]
    /\ result = [c \in Calls |-> NoResult]
    /\ workspaces = {}
    /\ images = {}
    /\ containers = {}

UsedIds == {executionId[c] : c \in Calls} \ {0}

\* (mutant: the generator of ids can return an id it returned before)
Uuidv4Repeating == ExecutionIds

\* what uuidv4() can return: a random version 4 UUID, never one it returned
\* before
Uuidv4 == ExecutionIds \ UsedIds

\* const executionId = uuidv4(); const tempDir = ...; enter the try block
ExecuteApi(c) ==
    /\ epc[c] = "idle"
    /\ \E id \in Uuidv4 :
          executionId' = [executionId EXCEPT ![c] = id]
    /\ epc' = [epc EXCEPT ![c] = "fetch"]
    /\ UNCHANGED <<exitKind, errorAt, result, workspaces, images, containers>>
    /\ UNCHANGED billingVars

\* a step of the call rejects: executeApi's catch block builds the failure
\* object from the error and control passes to the finally block
ThrowToExecuteApi(c, step) ==
    /\ result' = [result EXCEPT ![c] = FailureResult(executionId[c], step)]
    /\ epc' = [epc EXCEPT ![c] = "finally"]

\* a step of runInContainer that throws into runInContainer's catch block
ThrowToRunInContainer(c, step) ==
    /\ errorAt' = [errorAt EXCEPT ![c] = step]
    /\ epc' = [epc EXCEPT ![c] = "rc_catch"]

\* await this.fetchCodeFromIPFS(ipfsHash)
FetchCodeFromIPFS(c) ==
    /\ epc[c] = "fetch"
    /\ \/ /\ epc' = [epc EXCEPT ![c] = "prepare"]
          /\ UNCHANGED result
       \/ ThrowToExecuteApi(c, "fetch")
    /\ UNCHANGED <<executionId, exitKind, errorAt, workspaces, images, containers>>
    /\ UNCHANGED billingVars

\* await this.prepareExecutionEnvironment(tempDir, apiCode, requestData):
\* mkdir, then four writeFile calls; a failure after mkdir leaves the directory
PrepareExecutionEnvironment(c) ==
    /\ epc[c] = "prepare"
    /\ \/ /\ workspaces' = workspaces \cup {executionId[c]}
          /\ epc' = [epc EXCEPT ![c] = "build"]
          /\ UNCHANGED result
       \/ /\ workspaces' \in {workspaces, workspaces \cup {executionId[c]}}
          /\ ThrowToExecuteApi(c, "prepare")
    /\ UNCHANGED <<executionId, exitKind, errorAt, images, containers>>
    /\ UNCHANGED billingVars

\* const buildStream = await this.docker.buildImage(...)
BuildImage(c) ==
    /\ epc[c] = "build"
    /\ \/ /\ epc' = [epc EXCEPT ![c] = "build_wait"]
          /\ UNCHANGED errorAt
       \/ ThrowToRunInContainer(c, "build")
    /\ UNCHANGED <<executionId, exitKind, result, workspaces, images, containers>>
    /\ UNCHANGED billingVars

\* waitForBuild: the stream emits 'end' (the tagged image now exists)
BuildStreamEnd(c) ==
    /\ epc[c] = "build_wait"
    /\ images' = images \cup {executionId[c]}
    /\ epc' = [epc EXCEPT ![c] = "create"]
    /\ UNCHANGED <<executionId, exitKind, errorAt, result, workspaces, containers>>
    /\ UNCHANGED billingVars

\* waitForBuild: a chunk containing 'error', or the stream's 'error' event
BuildStreamError(c) ==
    /\ epc[c] = "build_wait"
    /\ ThrowToRunInContainer(c, "build")
    /\ UNCHANGED <<executionId, exitKind, result, workspaces, images, containers>>
    /\ UNCHANGED billingVars

\* await this.docker.createContainer({Image, name, HostConfig, Env})
CreateContainer(c) ==
    /\ epc[c] = "create"
    /\ \/ /\ containers' = containers \cup {executionId[c]}
          /\ epc' = [epc EXCEPT ![c] = "start"]
          /\ UNCHANGED errorAt
       \/ /\ ThrowToRunInContainer(c, "create")
          /\ UNCHANGED containers
    /\ UNCHANGED <<executionId, exitKind, result, workspaces, images>>
    /\ UNCHANGED billingVars

\* await container.start()
StartContainer(c) ==
    /\ epc[c] = "start"
    /\ \/ /\ epc' = [epc EXCEPT ![c] = "wait"]
          /\ UNCHANGED errorAt
       \/ ThrowToRunInContainer(c, "start")
    /\ UNCHANGED <<executionId, exitKind, result, workspaces, images, containers>>
    /\ UNCHANGED billingVars

\* const result = await container.wait(): the container has exited; the
\* status code is kept in result.StatusCode and not looked at
WaitContainer(c) ==
    /\ epc[c] = "wait"
    /\ \/ /\ \E k \in ExitKinds : exitKind' = [exitKind EXCEPT ![c] = k]
          /\ epc' = [epc EXCEPT ![c] = "logs"]
          /\ UNCHANGED errorAt
       \/ /\ ThrowToRunInContainer(c, "wait")
          /\ UNCHANGED exitKind
    /\ UNCHANGED <<executionId, result, workspaces, images, containers>>
    /\ UNCHANGED billingVars

\* getContainerLogs, getContainerStats, parseResponse (which never throws)
CollectOutput(c) ==
    /\ epc[c] = "logs"
    /\ \/ /\ epc' = [epc EXCEPT ![c] = "remove"]
          /\ UNCHANGED errorAt
       \/ ThrowToRunInContainer(c, "logs")
    /\ UNCHANGED <<executionId, exitKind, result, workspaces, images, containers>>
    /\ UNCHANGED billingVars

\* await container.remove(); runInContainer returns {response, logs, ...,
\* exitCode} and executeApi returns {success: true, executionId, ...}
RemoveContainer(c) ==
    /\ epc[c] = "remove"
    /\ \/ /\ containers' = containers \ {executionId[c]}
          /\ result' = [result EXCEPT ![c] = SuccessResult(executionId[c])]
          /\ epc' = [epc EXCEPT ![c] = "finally"]
          /\ UNCHANGED errorAt
       \/ /\ ThrowToRunInContainer(c, "remove")
          /\ UNCHANGED <<containers, result>>
    /\ UNCHANGED <<executionId, exitKind, workspaces, images>>
    /\ UNCHANGED billingVars

\* catch block of runInContainer: getContainer(name).remove({force: true});
\* a failure of that removal is only warned about; then `throw error`, which
\* executeApi's catch block turns into the failure object
RunInContainerCatch(c) ==
    /\ epc[c] = "rc_catch"
    /\ containers' \in {containers \ {executionId[c]}, containers}
    /\ ThrowToExecuteApi(c, errorAt[c])
    /\ errorAt' = [errorAt EXCEPT ![c] = "none"]
    /\ UNCHANGED <<executionId, exitKind, workspaces, images>>
    /\ UNCHANGED billingVars

\* (mutant: cleanup() lets the error of fs.rm escape the finally block)
CleanupRethrows(c) == "thrown"

\* what the finally block does with an error of fs.rm: cleanup() catches it,
\* warns, and the call resolves with the result already chosen
CleanupFailure(c) == "done"

\* finally { await this.cleanup(tempDir) }: fs.rm(tempDir, {recursive, force})
Cleanup(c) ==
    /\ epc[c] = "finally"
    /\ \/ /\ workspaces' = workspaces \ {executionId[c]}
          /\ epc' = [epc EXCEPT ![c] = "done"]
       \/ /\ UNCHANGED workspaces
          /\ epc' = [epc EXCEPT ![c] = CleanupFailure(c)]
    /\ UNCHANGED <<executionId, exitKind, errorAt, result, images, containers>>
    /\ UNCHANGED billingVars

\* the steps of a call that the program or the docker daemon completes on
\* its own; the build stream's events are left out: waitForBuild sets no timer
ExecStep(c) ==
    \/ ExecuteApi(c)
    \/ FetchCodeFromIPFS(c)
    \/ PrepareExecutionEnvironment(c)
    \/ BuildImage(c)
    \/ CreateContainer(c)
    \/ StartContainer(c)
    \/ WaitContainer(c)
    \/ CollectOutput(c)
    \/ RemoveContainer(c)
    \/ RunInContainerCatch(c)
    \/ Cleanup(c)

NextExec ==
    \E c \in Calls :
        \/ ExecStep(c)
        \/ BuildStreamEnd(c)
        \/ BuildStreamError(c)

\* executeApi calls alone; the metering and billing pipeline is idle
InitExecOnly == now = 0 /\ InitBilling /\ InitExec /\ InitMeter

SpecExec == InitExecOnly /\ [][NextExec]_vars

\* every awaited operation settles, except the build stream, which may stay
\* silent for ever
FairSpecExec == SpecExec /\ \A c \in Calls : WF_vars(ExecStep(c))

\* calculateCost on its own: every combination of arguments, one call
InitCost ==
    /\ now = 0 /\ InitBilling /\ InitExec
    /\ costArgs \in CostInputs
    /\ costResult = NoCost
    /\ InitTrack
    /\ InitLife
    /\ recording = FALSE
    /\ InitHash

NextCost == CalculateCostCall

SpecCost == InitCost /\ [][NextCost]_vars

(***************************************************************************)
(* Helpers                                                                 *)
(***************************************************************************)
Range(f) == {f[i] : i \in DOMAIN f}

RECURSIVE SetToSeq(_)
SetToSeq(S) ==
    IF S = {} THEN <<>>
    ELSE LET x == CHOOSE y \in S : TRUE IN <<x>> \o SetToSeq(S \ {x})

RECURSIVE SumRequestCount(_)
SumRequestCount(q) ==
    IF q = <<>> THEN 0 ELSE Head(q).requestCount + SumRequestCount(Tail(q))

\* the first n elements of q (all of q when it is shorter)
Take(q, n) == SubSeq(q, 1, IF Len(q) < n THEN Len(q) ELSE n)

(***************************************************************************)
(* Wall clock                                                              *)
(***************************************************************************)
MinutesPerDay == HoursPerDay * MinutesPerHour

\* Date#getMinutes, Date#getHours
GetMinutes(t) == t % MinutesPerHour
GetHours(t) == (t \div MinutesPerHour) % HoursPerDay

\* new Date(y, m, d, now.getHours(), 0, 0, 0)
HourStartOf(t) == t - GetMinutes(t)
\* new Date(y, m, d, 0, 0, 0, 0)
DayStartOf(t) == t - (t % MinutesPerDay)

\* Time passes. The clock is sampled at h:00 and h:01: every minute other
\* than 0 is treated alike by the code.
Tick ==
    /\ now' = IF GetMinutes(now) = 0 THEN now + 1 ELSE HourStartOf(now) + MinutesPerHour
    /\ now' <= MaxHour * MinutesPerHour
    /\ UNCHANGED <<usageLogs, snapshots, publishing, stream, groupExists,
                   lastDelivered, pending, metrics, isRunning, starting, owner,
                   lpc, batch, acked, updatedOk, updateThrew, calledAt, readAfterAck>>
    /\ UNCHANGED <<execVars, meterVars>>

(***************************************************************************)
(* UsageMeteringService.logUsage and RedisService.addUsageLog              *)
(***************************************************************************)
\* logData of logUsage, reduced to the fields the billing pipeline reads
LogData(u, a, sc, t, n) ==
    [apiId |-> a, userId |-> u, timestamp |-> t, statusCode |-> sc, executionId |-> n]

\* logUsage up to `await usageLog.save()`: timestamp = new Date()
LogUsageSave ==
    /\ Len(usageLogs) < MaxEvents
    /\ \E c \in CallContexts :
          usageLogs' = Append(usageLogs, LogData(c[1], c[2], c[3], now, Len(usageLogs) + 1))
    /\ publishing' = publishing \cup {Len(usageLogs) + 1}
    /\ UNCHANGED <<now, snapshots, stream, groupExists, lastDelivered, pending,
                   metrics, isRunning, starting, owner, lpc, batch, acked,
                   updatedOk, updateThrew, calledAt, readAfterAck>>
    /\ UNCHANGED <<execVars, meterVars>>

\* await redisService.addUsageLog(logData): XADD usage_logs * ..., or the
\* command fails and logUsage rethrows
LogUsagePublish ==
    /\ \E n \in publishing :
          /\ publishing' = publishing \ {n}
          /\ \/ stream' = Append(stream, usageLogs[n])
             \/ UNCHANGED stream
    /\ UNCHANGED <<now, usageLogs, snapshots, groupExists, lastDelivered, pending,
                   metrics, isRunning, starting, owner, lpc, batch, acked,
                   updatedOk, updateThrew, calledAt, readAfterAck>>
    /\ UNCHANGED <<execVars, meterVars>>

(***************************************************************************)
(* trackUsage (middleware/usageMetering.js) and the logUsage call it makes *)
(***************************************************************************)
\* the clock advances by a minute
MinutePasses ==
    /\ now < MaxMinute
    /\ now' = now + 1
    /\ UNCHANGED <<usageLogs, stream, workerVars, trackVars, costVars, lifeVars, hashVars, execVars>>

\* the body of the res.send override with n callbacks queued before: one
\* more is queued with setImmediate, then the original res.send writes
SendOverride(n) == n + 1

\* the original res.json of express 4 ends with `return this.send(body)`:
\* `this` is the response object, whose send is the override
OriginalJson(n) == SendOverride(n)

\* the body of the res.json override: a callback is queued with
\* setImmediate, then originalJson.call(this, data)
JsonOverride(n) == OriginalJson(n + 1)

\* the overridden res.send: the duration is measured, the logging callback is
\* queued with setImmediate, and the data goes to the original res.send
ResSend(r) ==
    /\ mpc[r] = "idle"
    /\ \E c \in MeterContexts :
          /\ mctx' = [mctx EXCEPT ![r] = c]
          /\ sent' = [sent EXCEPT ![r] = c.statusCode]
    /\ mpc' = [mpc EXCEPT ![r] = "queued"]
    /\ callbacks' = [callbacks EXCEPT ![r] = SendOverride(callbacks[r])]
    /\ UNCHANGED <<mlog, pricingCache, logOutcome, unhandled, ageAtCall,
                   lookedUp, refreshedAt, pricingOf, writes, appends, logUsageCalls>>
    /\ UNCHANGED <<pipelineVars, costVars, lifeVars, hashVars, execVars>>

\* the handler answers with res.json (the override): the duration is
\* measured, the logging callback is queued, and the data goes to the
\* original res.json
ResJson(r) ==
    /\ mpc[r] = "idle"
    /\ \E c \in MeterContexts :
          /\ mctx' = [mctx EXCEPT ![r] = c]
          /\ sent' = [sent EXCEPT ![r] = c.statusCode]
    /\ mpc' = [mpc EXCEPT ![r] = "queued"]
    /\ callbacks' = [callbacks EXCEPT ![r] = JsonOverride(callbacks[r])]
    /\ UNCHANGED <<mlog, pricingCache, logOutcome, unhandled, ageAtCall,
                   lookedUp, refreshedAt, pricingOf, writes, appends, logUsageCalls>>
    /\ UNCHANGED <<pipelineVars, costVars, lifeVars, hashVars, execVars>>

\* the logUsage call of a callback of the response has settled and another
\* callback of the same response is queued: it is due (the callbacks of one
\* response are taken one after the other)
NextCallback(r) ==
    /\ mpc[r] = "done"
    /\ logUsageCalls[r] < callbacks[r]
    /\ mpc' = [mpc EXCEPT ![r] = "queued"]
    /\ UNCHANGED <<mctx, sent, mlog, pricingCache, logOutcome, unhandled, ageAtCall,
                   lookedUp, refreshedAt, pricingOf, writes, appends,
                   callbacks, logUsageCalls>>
    /\ UNCHANGED <<pipelineVars, costVars, lifeVars, hashVars, execVars>>

\* logUsage once getApiPricing has returned `pricing`: calculateCost, logData
\* with timestamp = new Date(), new UsageLog(logData), and the save is issued
BuildLogData(r, pricing) ==
    /\ pricingOf' = [pricingOf EXCEPT ![r] = pricing]
    /\ mlog' = [mlog EXCEPT ![r] =
                  LogData(mctx[r].userId, mctx[r].apiId, mctx[r].statusCode, now, r)
                  @@ [cost |-> CalculateCost(pricing, mctx[r].duration,
                                             RequestSize, ResponseSize)]]
    /\ mpc' = [mpc EXCEPT ![r] = "save"]

\* (mutant: an entry is served from the cache whatever its age)
CacheHitAnyAge(entry, t) == entry # NoEntry

\* `cached && Date.now() - cached.timestamp < this.cacheExpiry`
CacheHit(entry, t) == entry # NoEntry /\ t - entry.timestamp < CacheExpiry

\* the setImmediate callback runs: logUsage computes the sizes and calls
\* getApiPricing, which returns the cached pricing or issues Api.findById
LogUsage(r) ==
    /\ mpc[r] = "queued"
    /\ LET entry == pricingCache[mctx[r].apiId] IN
          /\ ageAtCall' = [ageAtCall EXCEPT ![r] =
                              IF entry = NoEntry THEN -1 ELSE now - entry.timestamp]
          /\ IF CacheHit(entry, now)
                THEN /\ BuildLogData(r, entry.pricing)
                     /\ UNCHANGED lookedUp
                ELSE /\ mpc' = [mpc EXCEPT ![r] = "pricing"]
                     /\ lookedUp' = [lookedUp EXCEPT ![r] = TRUE]
                     /\ UNCHANGED <<mlog, pricingOf>>
    /\ logUsageCalls' = [logUsageCalls EXCEPT ![r] = logUsageCalls[r] + 1]
    /\ UNCHANGED <<mctx, sent, pricingCache, logOutcome, unhandled, refreshedAt,
                   writes, appends, callbacks>>
    /\ UNCHANGED <<pipelineVars, costVars, lifeVars, hashVars, execVars>>

\* (mutant: a failed lookup is rethrown instead of answered with the default)
LookupFailureThrows == "throw"

\* the catch block of getApiPricing returns the default pricing
LookupFailure == "default"

\* (mutant: the catch block caches the default pricing it returns)
CacheFallback(cache, apiId, t) ==
    [cache EXCEPT ![apiId] = [pricing |-> DefaultPricing, timestamp |-> t]]

\* the catch block of getApiPricing logs and returns: pricingCache is as it
\* was
CacheAfterFailure(cache, apiId, t) == cache

\* `await Api.findById(apiId).select('endpoints')` settles: the api was found
\* (the pricing is cached with timestamp Date.now()), or it was not found, or
\* the query failed (both end in the catch block)
ApiFindById(r) ==
    /\ mpc[r] = "pricing"
    /\ \/ /\ pricingCache' = [pricingCache EXCEPT ![mctx[r].apiId] =
                                  [pricing |-> DefaultPricing, timestamp |-> now]]
          /\ refreshedAt' = [refreshedAt EXCEPT ![r] = now]
          /\ BuildLogData(r, DefaultPricing)
          /\ UNCHANGED <<logOutcome, unhandled>>
       \/ /\ pricingCache' = CacheAfterFailure(pricingCache, mctx[r].apiId, now)
          /\ UNCHANGED refreshedAt
          /\ IF LookupFailure = "default"
                THEN /\ BuildLogData(r, DefaultPricing)
                     /\ UNCHANGED <<logOutcome, unhandled>>
                ELSE /\ mpc' = [mpc EXCEPT ![r] = "done"]
                     /\ logOutcome' = [logOutcome EXCEPT ![r] =
                                          [kind |-> "rejected", error |-> "lookup failed"]]
                     /\ UNCHANGED <<mlog, pricingOf, unhandled>>
    /\ UNCHANGED <<mctx, sent, ageAtCall, lookedUp, writes, appends,
                   callbacks, logUsageCalls>>
    /\ UNCHANGED <<pipelineVars, costVars, lifeVars, hashVars, execVars>>

\* (mutant: the callback has no try/catch, the rejection goes unhandled)
CallbackWithoutCatch == "unhandled"

\* the catch block of the setImmediate callback logs the error
CallbackCatch == "logged"

\* (mutant: the catch block of logUsage logs the error and returns the record)
LogUsageSwallows(error) == [kind |-> "returned", error |-> "none"]

\* the catch block of logUsage: console.error, `throw error`
LogUsageCatch(error) == [kind |-> "rejected", error |-> error]

\* logUsage rejected: the callback of trackUsage receives the rejection
Rejected(r, error) ==
    /\ logOutcome' = [logOutcome EXCEPT ![r] = LogUsageCatch(error)]
    /\ unhandled' = IF LogUsageCatch(error).kind = "rejected" /\ CallbackCatch = "unhandled"
                       THEN unhandled \cup {r} ELSE unhandled
    /\ mpc' = [mpc EXCEPT ![r] = "done"]

\* (mutant: a failed save is logged and logUsage goes on to publish)
SaveFailureIgnored == "continue"

\* a rejected `await usageLog.save()` leaves the try block of logUsage
SaveFailure == "throw"

\* `await usageLog.save()` settles: the record is in the UsageLog collection
\* and XADD is issued, or the save failed
UsageLogSave(r) ==
    /\ mpc[r] = "save"
    /\ \/ /\ usageLogs' = Append(usageLogs, mlog[r])
          /\ writes' = [writes EXCEPT ![r] = writes[r] + 1]
          /\ mpc' = [mpc EXCEPT ![r] = "publish"]
          /\ UNCHANGED <<logOutcome, unhandled>>
       \/ /\ IF SaveFailure = "throw"
                THEN Rejected(r, "save failed")
                ELSE /\ mpc' = [mpc EXCEPT ![r] = "publish"]
                     /\ UNCHANGED <<logOutcome, unhandled>>
          /\ UNCHANGED <<usageLogs, writes>>
    /\ UNCHANGED <<mctx, sent, mlog, pricingCache, ageAtCall, lookedUp,
                   refreshedAt, pricingOf, appends, callbacks, logUsageCalls>>
    /\ UNCHANGED <<now, stream, workerVars, costVars, lifeVars, hashVars, execVars>>

\* (mutant: the entry is appended twice)
XAddTwice(entry) == stream \o <<entry, entry>>

\* the entry addUsageLog builds from logData (redis.js:34-50): the same
\* fields, which XADD stores as the decimal strings of the numbers here
StreamEntry(logData) ==
    [apiId |-> logData.apiId, userId |-> logData.userId,
     timestamp |-> logData.timestamp, statusCode |-> logData.statusCode,
     executionId |-> logData.executionId, cost |-> logData.cost]

\* XADD usage_logs * field value ...: the stream after the append
XAdd(entry) == Append(stream, entry)

\* `await redisService.addUsageLog(logData)` settles: the entry is in the
\* stream and logUsage returns usageLog, or XADD failed and addUsageLog
\* rethrew
AddUsageLog(r) ==
    /\ mpc[r] = "publish"
    /\ \/ /\ stream' = XAdd(StreamEntry(mlog[r]))
          /\ appends' = [appends EXCEPT ![r] = appends[r] + 1]
          /\ logOutcome' = [logOutcome EXCEPT ![r] = [kind |-> "returned", error |-> "none"]]
          /\ mpc' = [mpc EXCEPT ![r] = "done"]
          /\ UNCHANGED unhandled
       \/ /\ Rejected(r, "xadd failed")
          /\ UNCHANGED <<stream, appends>>
    /\ UNCHANGED <<mctx, sent, mlog, pricingCache, ageAtCall, lookedUp,
                   refreshedAt, pricingOf, writes, callbacks, logUsageCalls>>
    /\ UNCHANGED <<now, usageLogs, workerVars, costVars, lifeVars, hashVars, execVars>>

\* Metering of requests: the response path and the logUsage calls, observed
\* within one minute
NextMetering ==
    \E r \in Requests :
        \/ ResSend(r)
        \/ LogUsage(r)
        \/ ApiFindById(r)
        \/ UsageLogSave(r)
        \/ AddUsageLog(r)

InitMetering == now = 0 /\ InitBilling /\ InitExec /\ InitMeter

SpecMetering == InitMetering /\ [][NextMetering]_vars

\* Responses through trackUsage: the handler answers with res.send or with
\* res.json, and every callback queued for the response makes its logUsage
\* call
NextResponse ==
    \E r \in Requests :
        \/ ResSend(r)
        \/ ResJson(r)
        \/ NextCallback(r)
        \/ LogUsage(r)
        \/ ApiFindById(r)
        \/ UsageLogSave(r)
        \/ AddUsageLog(r)

InitResponse == now = 0 /\ InitBilling /\ InitExec /\ InitMeter

SpecResponse == InitResponse /\ [][NextResponse]_vars

\* Pricing resolution: the logUsage calls up to the point where
\* getApiPricing has returned, while the clock advances
NextPricing ==
    \/ MinutePasses
    \/ \E r \in Requests :
          \/ ResSend(r)
          \/ LogUsage(r)
          \/ ApiFindById(r)

InitPricing == now = 0 /\ InitBilling /\ InitExec /\ InitMeter

SpecPricing == InitPricing /\ [][NextPricing]_vars

(***************************************************************************)
(* Redis commands issued by RedisService                                   *)
(***************************************************************************)
\* (mutant: the stream is read from its start, as readUsageLogs does with
\* XREAD ... usage_logs 0, without the group's cursor)
XReadFromStart(count) ==
    Take([i \in 1..Len(stream) |-> i], count)

\* (mutant: the read returns the pending entries no loop holds as well as
\* the entries never delivered)
XReadGroupReclaiming(count) ==
    Take(SelectSeq([i \in 1..Len(stream) |-> i],
                   LAMBDA id : id > lastDelivered
                               \/ id \in pending \ UNION {Range(batch[l]) : l \in Loops}),
         count)

\* (mutant: the read returns the entries not acknowledged, delivered before
\* or not)
XReadGroupUnacked(count) ==
    Take(SelectSeq([i \in 1..Len(stream) |-> i], LAMBDA id : id \notin acked), count)

\* XREADGROUP GROUP g c COUNT count STREAMS usage_logs > : the entries never
\* delivered to the group, oldest first, at most `count` of them
XReadGroup(count) ==
    Take([i \in 1..(Len(stream) - lastDelivered) |-> lastDelivered + i], count)

\* ids of the entries some loop has read and not yet gone through
InFlight == UNION {Range(batch[l]) : l \in Loops}

\* entries delivered to the group, left unacknowledged, and no longer held
\* by any loop
Abandoned == pending \ InFlight

(***************************************************************************)
(* BillingWorker.start / stop                                              *)
(***************************************************************************)
FreeLoops == {l \in Loops : lpc[l] = "none"}

RECURSIVE StartsInFlight(_)
StartsInFlight(W) ==
    IF W = {} THEN 0
    ELSE LET w == CHOOSE x \in W : TRUE IN starting[w] + StartsInFlight(W \ {w})

\* lastCall after `call` was made on worker w
Called(w, call) ==
    IF recording THEN [lastCall EXCEPT ![w] = call] ELSE lastCall

\* (mutant: start() does not look at isRunning)
AlreadyRunningUnchecked(w) == FALSE

\* `if (this.isRunning)` at the top of start()
AlreadyRunning(w) == isRunning[w]

\* start() on a worker that is running: the call logs and returns
StartWhileRunning(w) ==
    /\ AlreadyRunning(w)
    /\ noopStarts' = noopStarts \cup {w}
    /\ lastCall' = Called(w, "start")
    /\ UNCHANGED <<recording, startFailures>>
    /\ UNCHANGED <<pipelineVars, costVars, trackVars, hashVars, execVars>>

\* (mutant: start() sets isRunning before it awaits createConsumerGroup)
RunningSetAtStart(w) == TRUE

\* isRunning while start() awaits createConsumerGroup: the assignment comes
\* after the await
RunningWhileEnsuring(w) == isRunning[w]

\* start(): isRunning is false, so the call goes on to
\* `await redisService.createConsumerGroup(...)`
Start(w) ==
    /\ ~AlreadyRunning(w)
    /\ StartsInFlight(Workers) < Cardinality(FreeLoops)
    /\ starting' = [starting EXCEPT ![w] = starting[w] + 1]
    /\ isRunning' = [isRunning EXCEPT ![w] = RunningWhileEnsuring(w)]
    /\ UNCHANGED <<now, usageLogs, snapshots, publishing, stream, groupExists,
                   lastDelivered, pending, metrics, owner, lpc, batch,
                   acked, updatedOk, updateThrew, calledAt, readAfterAck>>
    /\ lastCall' = Called(w, "start")
    /\ UNCHANGED <<noopStarts, recording, startFailures>>
    /\ UNCHANGED <<execVars, costVars, trackVars, hashVars>>

\* (mutant: the group is created anew: its cursor goes to the end of the
\* stream and its pending list is emptied)
XGroupRecreate == [cursor |-> Len(stream), pending |-> {}]

\* XGROUP CREATE usage_logs billing_worker $ MKSTREAM: a new group starts at
\* the end of the stream with nothing pending; for a group that exists the
\* command answers BUSYGROUP and changes nothing
XGroupCreate ==
    IF groupExists
       THEN [cursor |-> lastDelivered, pending |-> pending]
       ELSE [cursor |-> Len(stream), pending |-> {}]

\* createConsumerGroup resolved (XGROUP CREATE usage_logs g $ MKSTREAM done,
\* or BUSYGROUP swallowed): isRunning = true; processLoop() runs up to its
\* first await, the XREADGROUP of processUsageLogs
StartEnsured(w) ==
    /\ starting[w] > 0
    /\ \E l \in FreeLoops :
          /\ l = CHOOSE f \in FreeLoops : TRUE
          /\ owner' = [owner EXCEPT ![l] = w]
          /\ lpc' = [lpc EXCEPT ![l] = "read"]
    /\ starting' = [starting EXCEPT ![w] = starting[w] - 1]
    /\ isRunning' = [isRunning EXCEPT ![w] = TRUE]
    /\ groupExists' = TRUE
    /\ lastDelivered' = XGroupCreate.cursor
    /\ pending' = XGroupCreate.pending
    /\ UNCHANGED <<now, usageLogs, snapshots, publishing, stream, metrics,
                   batch, acked, updatedOk, updateThrew, calledAt, readAfterAck>>
    /\ UNCHANGED <<execVars, meterVars>>

\* (mutant: isRunning is set before the group is ensured and is not taken
\* back when ensuring fails)
RunningSetBeforeEnsure(w) == TRUE

\* isRunning after createConsumerGroup rejected: the assignment of start()
\* was not reached
RunningAfterStartFailed(w) == isRunning[w]

\* createConsumerGroup rejected with an error other than BUSYGROUP: start()
\* rethrows, isRunning stays false, no loop is launched
StartFailed(w) ==
    /\ starting[w] > 0
    /\ starting' = [starting EXCEPT ![w] = starting[w] - 1]
    /\ isRunning' = [isRunning EXCEPT ![w] = RunningAfterStartFailed(w)]
    /\ UNCHANGED <<now, usageLogs, snapshots, publishing, stream, groupExists,
                   lastDelivered, pending, metrics, owner, lpc, batch,
                   acked, updatedOk, updateThrew, calledAt, readAfterAck>>
    /\ startFailures' = IF recording THEN startFailures \cup {w} ELSE startFailures
    /\ UNCHANGED <<noopStarts, recording, lastCall>>
    /\ UNCHANGED <<execVars, costVars, trackVars, hashVars>>

\* stop(): this.isRunning = false
Stop(w) ==
    /\ isRunning[w]
    /\ isRunning' = [isRunning EXCEPT ![w] = FALSE]
    /\ UNCHANGED <<now, usageLogs, snapshots, publishing, stream, groupExists,
                   lastDelivered, pending, metrics, starting, owner, lpc, batch,
                   acked, updatedOk, updateThrew, calledAt, readAfterAck>>
    /\ lastCall' = Called(w, "stop")
    /\ UNCHANGED <<noopStarts, recording, startFailures>>
    /\ UNCHANGED <<execVars, costVars, trackVars, hashVars>>

(***************************************************************************)
(* BillingWorker.processLoop                                               *)
(***************************************************************************)
\* (mutant: createHourlySnapshots without its minute check)
HourlyAlwaysDue(t) == TRUE

\* createHourlySnapshots: `if (now.getMinutes() !== 0) return;`
HourlyDue(t) == GetMinutes(t) = 0

\* processUsageLogs has returned: createHourlySnapshots() reads the clock and
\* returns at once unless the minute is 0; createDailySnapshots() then does
\* the same unless hour and minute are 0; the next suspension is the
\* aggregate of a due pass, or the interval timer
AfterProcessUsageLogs(l) ==
    IF ~HourlyDue(now)
       THEN /\ lpc' = [lpc EXCEPT ![l] = "sleep"]
            /\ UNCHANGED calledAt
       ELSE /\ lpc' = [lpc EXCEPT ![l] = "hourly"]
            /\ calledAt' = [calledAt EXCEPT ![l] = now]

\* (mutant: the acknowledgment is issued whether or not processMessage threw)
AckAfterUpdateThrew == "ack"

\* what the inner catch of processUsageLogs does after processMessage threw:
\* the entry is not acknowledged, the for loop moves on to the next entry
AfterUpdateThrew == "next"

\* (mutant: the for loop of processUsageLogs breaks once the worker is
\* stopped)
ForLoopBreaksOnStop(l) == isRunning[owner[l]]

\* (mutant: the try/catch is around the for loop: the loop goes on only
\* after an entry that was acknowledged)
ForLoopBreaksOnThrow(l) == lpc[l] = "ack" /\ Head(batch[l]) \in acked'

\* the for loop over the batch goes on to the next entry: it has no test of
\* isRunning, and its try/catch is inside its body
ForLoopContinues(l) == TRUE

\* the for loop has gone through the head of the batch
NextEntry(l) ==
    IF Tail(batch[l]) # <<>> /\ ForLoopContinues(l)
       THEN /\ batch' = [batch EXCEPT ![l] = Tail(batch[l])]
            /\ lpc' = [lpc EXCEPT ![l] = "process"]
            /\ UNCHANGED calledAt
       ELSE /\ batch' = [batch EXCEPT ![l] = <<>>]
            /\ AfterProcessUsageLogs(l)

\* (mutant: a rejected read is not caught and ends processLoop)
ReadFailureEndsLoop == "uncaught"

\* the outer catch of processUsageLogs logs a rejected read
ReadFailure == "logged"

\* processUsageLogs: `await redisService.readFromConsumerGroup(...)` settles.
\* Either XREADGROUP answered (the entries returned are now pending and the
\* group's cursor has moved; an empty answer makes processUsageLogs return),
\* or it failed and the outer catch of processUsageLogs logged the error.
ReadFromConsumerGroup(l) ==
    /\ lpc[l] = "read"
    /\ \/ LET ids == XReadGroup(BatchSize) IN
            /\ batch' = [batch EXCEPT ![l] = ids]
            /\ pending' = pending \cup Range(ids)
            /\ lastDelivered' = IF ids = <<>> THEN lastDelivered ELSE ids[Len(ids)]
            /\ readAfterAck' = (readAfterAck \/ (ids # <<>> /\ acked # {}))
            /\ IF ids = <<>>
                  THEN AfterProcessUsageLogs(l)
                  ELSE /\ lpc' = [lpc EXCEPT ![l] = "process"]
                       /\ UNCHANGED calledAt
       \/ /\ IF ReadFailure = "logged"
                THEN AfterProcessUsageLogs(l)
                ELSE /\ lpc' = [lpc EXCEPT ![l] = "none"]
                     /\ UNCHANGED calledAt
          /\ UNCHANGED <<batch, pending, lastDelivered, readAfterAck>>
    /\ UNCHANGED <<now, usageLogs, snapshots, publishing, stream, groupExists,
                   metrics, isRunning, starting, owner, acked, updatedOk, updateThrew>>
    /\ UNCHANGED <<execVars, meterVars>>

\* the fields of a metrics hash
MetricsFields == {"requests", "bytes_in", "bytes_out", "cost", "duration",
                  "errors", "success"}

\* time to live of a metrics key, in minutes
MetricsTtl == ExpireSeconds \div SecondsPerMinute

\* HGET of a field, 0 for a field the hash does not have
HGet(h, f) == IF f \in DOMAIN h THEN h[f] ELSE 0

\* (mutant: the field is set to the increment)
HSetField(h, f, n) == [g \in DOMAIN h \cup {f} |-> IF g = f THEN n ELSE h[g]]

\* HINCRBY key f n: one command, run by the server in one piece; a field (a
\* key) that does not exist is created at 0 first
HIncrBy(h, f, n) ==
    [g \in DOMAIN h \cup {f} |-> IF g = f THEN HGet(h, f) + n ELSE h[g]]

\* (mutant: the time to live is set only on a key that has none)
ExpireIfNoTtl(ttl, t) == IF ttl = NoTtl THEN t + MetricsTtl ELSE ttl

\* EXPIRE key 3600 at time t: the key expires an hour from t, whatever time
\* to live it had
Expire(ttl, t) == t + MetricsTtl

\* duration of the requests behind the entries (every entry of the model
\* has the same sizes, duration and pricing)
EntryDuration == CHOOSE d \in MeterDurations : d > 0

\* Math.round(parseFloat(message.cost) * 1000000)
EntryCost == CalculateCost(DefaultPricing, EntryDuration, RequestSize, ResponseSize)

\* the commands updateRealTimeMetrics queues on its pipeline for entry e
PipelineCommands(e) ==
    << [op |-> "hincrby", field |-> "requests",  by |-> 1],
       [op |-> "hincrby", field |-> "bytes_in",  by |-> RequestSize],
       [op |-> "hincrby", field |-> "bytes_out", by |-> ResponseSize],
       [op |-> "hincrby", field |-> "cost",      by |-> EntryCost],
       [op |-> "hincrby", field |-> "duration",  by |-> EntryDuration],
       [op |-> "hincrby",
        field |-> IF e.statusCode >= 400 THEN "errors" ELSE "success", by |-> 1],
       [op |-> "expire", field |-> "", by |-> 0] >>

\* the server runs one command on a key in state k = (hash, ttl) at time t;
\* EXPIRE of a key that does not exist does nothing
RunCommand(k, c, t) ==
    IF c.op = "hincrby"
       THEN [hash |-> HIncrBy(k.hash, c.field, c.by), ttl |-> k.ttl]
       ELSE [hash |-> k.hash,
             ttl  |-> IF k.hash = EmptyHash THEN k.ttl ELSE Expire(k.ttl, t)]

\* the server runs the commands of a sequence one after the other
RECURSIVE RunCommands(_, _, _)
RunCommands(k, cmds, t) ==
    IF cmds = <<>> THEN k
    ELSE RunCommands(RunCommand(k, Head(cmds), t), Tail(cmds), t)

\* the key of the metrics hash of an entry: metrics:<userId>:<apiId>
MetricsKey(e) == <<e.userId, e.apiId>>

\* `await this.processMessage(fields)` for the head of the batch, the
\* commands of the pipeline of updateRealTimeMetrics run back to back: the
\* pipeline ran, or processMessage threw
ProcessMessage(l) ==
    /\ lpc[l] = "process"
    /\ LET id == Head(batch[l])
           e == stream[id]
           key == MetricsKey(e)
           k == RunCommands([hash |-> metrics[key], ttl |-> expiresAt[key]],
                            PipelineCommands(e), now)
       IN \/ /\ metrics' = [metrics EXCEPT ![key] = k.hash]
             /\ expiresAt' = [expiresAt EXCEPT ![key] = k.ttl]
             /\ updatedOk' = updatedOk \cup {id}
             /\ lpc' = [lpc EXCEPT ![l] = "ack"]
             /\ UNCHANGED <<batch, updateThrew, calledAt>>
          \/ /\ updateThrew' = updateThrew \cup {id}
             /\ IF AfterUpdateThrew = "ack"
                   THEN /\ lpc' = [lpc EXCEPT ![l] = "ack"]
                        /\ UNCHANGED <<batch, calledAt>>
                   ELSE NextEntry(l)
             /\ UNCHANGED <<metrics, expiresAt, updatedOk>>
    /\ UNCHANGED <<now, usageLogs, snapshots, publishing, stream, groupExists,
                   lastDelivered, pending, isRunning, starting, owner, acked,
                   readAfterAck>>
    /\ UNCHANGED <<ppc, response, lapsed, overlapped>>
    /\ UNCHANGED <<execVars, costVars, trackVars, lifeVars>>

\* loops with a pipeline part of whose commands the server has run
MidPipeline == {l \in Loops : ppc[l] > 0}

\* the server runs the next command of the pipeline of loop l; the commands
\* of one connection run in the order they were sent, so no command of the
\* same process comes between them; after the last one pipeline.exec()
\* resolves
PipelineCommand(l) ==
    /\ lpc[l] = "process"
    /\ \A m \in MidPipeline : m = l \/ owner[m] # owner[l]
    /\ LET id == Head(batch[l])
           e == stream[id]
           key == MetricsKey(e)
           cmds == PipelineCommands(e)
           k == RunCommand([hash |-> metrics[key], ttl |-> expiresAt[key]],
                           cmds[ppc[l] + 1], now)
       IN /\ metrics' = [metrics EXCEPT ![key] = k.hash]
          /\ expiresAt' = [expiresAt EXCEPT ![key] = k.ttl]
          /\ overlapped' =
                IF \E m \in MidPipeline \ {l} : MetricsKey(stream[Head(batch[m])]) = key
                   THEN overlapped \cup {key} ELSE overlapped
          /\ IF ppc[l] + 1 < Len(cmds)
                THEN /\ ppc' = [ppc EXCEPT ![l] = ppc[l] + 1]
                     /\ UNCHANGED <<lpc, updatedOk>>
                ELSE /\ ppc' = [ppc EXCEPT ![l] = 0]
                     /\ lpc' = [lpc EXCEPT ![l] = "ack"]
                     /\ updatedOk' = updatedOk \cup {id}
    /\ UNCHANGED <<now, usageLogs, snapshots, publishing, stream, groupExists,
                   lastDelivered, pending, isRunning, starting, owner, batch,
                   calledAt, acked, updateThrew, readAfterAck>>
    /\ UNCHANGED <<response, lapsed>>
    /\ UNCHANGED <<execVars, costVars, trackVars, lifeVars>>

\* pipeline.exec() rejected before the server ran a command of the pipeline:
\* processMessage threw
PipelineRejected(l) ==
    /\ lpc[l] = "process"
    /\ ppc[l] = 0
    /\ updateThrew' = updateThrew \cup {Head(batch[l])}
    /\ IF AfterUpdateThrew = "ack"
          THEN /\ lpc' = [lpc EXCEPT ![l] = "ack"]
               /\ UNCHANGED <<batch, calledAt>>
          ELSE NextEntry(l)
    /\ UNCHANGED <<now, usageLogs, snapshots, publishing, stream, groupExists,
                   lastDelivered, pending, metrics, isRunning, starting, owner,
                   acked, updatedOk, readAfterAck>>
    /\ UNCHANGED <<execVars, meterVars>>

\* half an hour passes (the clock stays off minute 0, where the snapshot
\* pass starts); the keys whose time to live has run out are gone
HalfHourPasses ==
    /\ now + (MinutesPerHour \div 2) <= MaxHalfHours * (MinutesPerHour \div 2) + 1
    /\ now' = now + (MinutesPerHour \div 2)
    /\ LET gone == {k \in DOMAIN metrics : expiresAt[k] # NoTtl /\ expiresAt[k] <= now'}
       IN /\ metrics' = [k \in DOMAIN metrics |->
                            IF k \in gone THEN EmptyHash ELSE metrics[k]]
          /\ expiresAt' = [k \in DOMAIN metrics |->
                              IF k \in gone THEN NoTtl ELSE expiresAt[k]]
          /\ lapsed' = lapsed \cup gone
    /\ UNCHANGED <<usageLogs, snapshots, publishing, stream, groupExists,
                   lastDelivered, pending, isRunning, starting, owner, lpc, batch,
                   calledAt, acked, updatedOk, updateThrew, readAfterAck>>
    /\ UNCHANGED <<ppc, response, overlapped>>
    /\ UNCHANGED <<execVars, costVars, trackVars, lifeVars>>

\* the number parseInt(value) / d comes to, kept as a fraction
Fraction(n, d) == [num |-> n, den |-> d]

\* GET /metrics: every field HGETALL answered goes through parseInt, 'cost'
\* is divided by 1000000 as well; a field HGETALL did not answer is not in
\* the result
FormatMetrics(h) ==
    [f \in DOMAIN h |-> IF f = "cost" THEN Fraction(h[f], 1000000)
                                     ELSE Fraction(h[f], 1)]

\* GET /api/usage/metrics?userId=..&apiId=.. served by the process of worker
\* w: HGETALL goes over the connection of that process, so it does not come
\* between the commands of a pipeline of that process
GetMetrics(w, key) ==
    /\ \A m \in MidPipeline : owner[m] # w
    /\ response' = [key |-> key, metrics |-> FormatMetrics(metrics[key])]
    /\ UNCHANGED <<pipelineVars, execVars, costVars, trackVars, lifeVars>>
    /\ UNCHANGED <<expiresAt, ppc, lapsed, overlapped>>

\* `await redisService.acknowledgeMessage(streamKey, groupName, messageId)`:
\* XACK removed the entry from the pending list, or the command failed and
\* the inner catch logged it
AcknowledgeMessage(l) ==
    /\ lpc[l] = "ack"
    /\ LET id == Head(batch[l]) IN
          \/ /\ pending' = pending \ {id}
             /\ acked' = acked \cup {id}
          \/ UNCHANGED <<pending, acked>>
    /\ NextEntry(l)
    /\ UNCHANGED <<now, usageLogs, snapshots, publishing, stream, groupExists,
                   lastDelivered, metrics, isRunning, starting, owner,
                   updatedOk, updateThrew, readAfterAck>>
    /\ UNCHANGED <<execVars, meterVars>>

\* UsageLog.aggregate([{$match: timestamp in [from, to)}, {$group: by
\* (userId, apiId), requestCount: {$sum: 1}}])
InWindow(from, to) ==
    {n \in DOMAIN usageLogs : usageLogs[n].timestamp >= from /\ usageLogs[n].timestamp < to}

Aggregate(from, to) ==
    LET keys == {<<usageLogs[n].userId, usageLogs[n].apiId>> : n \in InWindow(from, to)}
    IN  {[userId |-> k[1], apiId |-> k[2],
          requestCount |-> Cardinality({n \in InWindow(from, to) :
                              <<usageLogs[n].userId, usageLogs[n].apiId>> = k})]
         : k \in keys}

\* new UsageSnapshot({...}) for each aggregated group, in result order
NewSnapshots(period, from, to) ==
    LET data == SetToSeq(Aggregate(from, to))
    IN  [i \in 1..Len(data) |->
            [userId |-> data[i].userId, apiId |-> data[i].apiId, period |-> period,
             periodStart |-> from, periodEnd |-> to,
             requestCount |-> data[i].requestCount]]

\* `await snapshot.save()` for the first k documents: all of them, or the
\* aggregate or a save threw and the catch block logged it
SaveSnapshots(docs) ==
    \E k \in 0..Len(docs) :
        /\ Len(snapshots) + k <= MaxSnapshots
        /\ snapshots' = snapshots \o Take(docs, k)

\* (mutant: createDailySnapshots has no test of the clock)
DailyAlwaysDue(t) == TRUE

\* createDailySnapshots: `if (now.getHours() !== 0 || now.getMinutes() !== 0)
\* return;`
DailyDue(t) == GetHours(t) = 0 /\ GetMinutes(t) = 0

\* createHourlySnapshots() past its minute check: aggregate over the hour of
\* the clock value read at entry, one save per group; then
\* createDailySnapshots() reads the clock and makes its own check
CreateHourlySnapshots(l) ==
    /\ lpc[l] = "hourly"
    /\ LET hourStart == HourStartOf(calledAt[l]) IN
          SaveSnapshots(NewSnapshots("hourly", hourStart, hourStart + MinutesPerHour))
    /\ IF ~DailyDue(now)
          THEN /\ lpc' = [lpc EXCEPT ![l] = "sleep"]
               /\ calledAt' = [calledAt EXCEPT ![l] = 0]
          ELSE /\ lpc' = [lpc EXCEPT ![l] = "daily"]
               /\ calledAt' = [calledAt EXCEPT ![l] = now]
    /\ UNCHANGED <<now, usageLogs, publishing, stream, groupExists, lastDelivered,
                   pending, metrics, isRunning, starting, owner, batch, acked,
                   updatedOk, updateThrew, readAfterAck>>
    /\ UNCHANGED <<execVars, meterVars>>

\* createDailySnapshots() past its hour and minute check
CreateDailySnapshots(l) ==
    /\ lpc[l] = "daily"
    /\ LET dayStart == DayStartOf(calledAt[l]) IN
          SaveSnapshots(NewSnapshots("daily", dayStart, dayStart + MinutesPerDay))
    /\ lpc' = [lpc EXCEPT ![l] = "sleep"]
    /\ calledAt' = [calledAt EXCEPT ![l] = 0]
    /\ UNCHANGED <<now, usageLogs, publishing, stream, groupExists, lastDelivered,
                   pending, metrics, isRunning, starting, owner, batch, acked,
                   updatedOk, updateThrew, readAfterAck>>
    /\ UNCHANGED <<execVars, meterVars>>

\* the setTimeout of processingInterval fired; `while (this.isRunning)`:
\* another iteration issues its XREADGROUP, or the loop ends
Sleep(l) ==
    /\ lpc[l] = "sleep"
    /\ IF isRunning[owner[l]]
          THEN /\ lpc' = [lpc EXCEPT ![l] = "read"]
               /\ UNCHANGED owner
          ELSE /\ lpc' = [lpc EXCEPT ![l] = "none"]
               /\ owner' = [owner EXCEPT ![l] = 0]
    /\ UNCHANGED <<now, usageLogs, snapshots, publishing, stream, groupExists,
                   lastDelivered, pending, metrics, isRunning, starting, batch,
                   acked, updatedOk, updateThrew, calledAt, readAfterAck>>
    /\ UNCHANGED <<execVars, meterVars>>

(***************************************************************************)
(* Metering and billing pipeline                                           *)
(***************************************************************************)
\* steps of start() and stop(), the read and the sleep of an iteration
WorkerStep ==
    \/ \E w \in Workers :
          \/ Start(w)
          \/ StartEnsured(w)
          \/ StartFailed(w)
          \/ Stop(w)
    \/ \E l \in Loops :
          \/ ReadFromConsumerGroup(l)
          \/ Sleep(l)

\* Delivery of events: logUsage calls and workers, observed within one
\* minute that is not the first of an hour (both snapshot passes return at
\* their clock check).
NextDelivery ==
    \/ LogUsageSave
    \/ LogUsagePublish
    \/ WorkerStep
    \/ \E l \in Loops :
          \/ ProcessMessage(l)
          \/ AcknowledgeMessage(l)

InitDelivery == now = 1 /\ InitBilling /\ InitExec /\ InitMeter

SpecDelivery == InitDelivery /\ [][NextDelivery]_vars

\* Snapshot materialization: the clock advances from midnight of day 0,
\* logUsage calls save their records, workers iterate. The XADD of the
\* logUsage calls is still outstanding, so every XREADGROUP answers empty.
NextSnapshots ==
    \/ Tick
    \/ LogUsageSave
    \/ WorkerStep
    \/ \E l \in Loops :
          \/ CreateHourlySnapshots(l)
          \/ CreateDailySnapshots(l)

\* Life cycle of the workers: start() and stop() calls in any order, and the
\* loops they launch, on an empty stream
NextLifecycle ==
    \/ WorkerStep
    \/ \E w \in Workers : StartWhileRunning(w)

InitLifecycle ==
    /\ now = 1 /\ InitBilling /\ InitExec
    /\ InitCostIdle /\ InitTrack /\ InitLife /\ InitHash
    /\ recording = TRUE

SpecLifecycle == InitLifecycle /\ [][NextLifecycle]_vars

\* The metrics hashes: entries are logged and published, the workers are
\* started, their loops update the hashes command by command, and
\* GET /metrics is served
NextMetrics ==
    \/ LogUsageSave
    \/ LogUsagePublish
    \/ \E w \in Workers :
          \/ Start(w)
          \/ StartEnsured(w)
          \/ \E key \in Users \X Apis : GetMetrics(w, key)
    \/ \E l \in Loops :
          \/ ReadFromConsumerGroup(l)
          \/ PipelineCommand(l)
          \/ PipelineRejected(l)
          \/ AcknowledgeMessage(l)
          \/ Sleep(l)

InitMetrics == now = 1 /\ InitBilling /\ InitExec /\ InitMeter

SpecMetrics == InitMetrics /\ [][NextMetrics]_vars

\* The time to live of the metrics hashes: entries are logged and published,
\* the workers are started, their loops update the hashes, and time passes
NextExpiry ==
    \/ HalfHourPasses
    \/ LogUsageSave
    \/ LogUsagePublish
    \/ \E w \in Workers :
          \/ Start(w)
          \/ StartEnsured(w)
    \/ \E l \in Loops :
          \/ ReadFromConsumerGroup(l)
          \/ ProcessMessage(l)
          \/ AcknowledgeMessage(l)
          \/ Sleep(l)

InitExpiry == now = 1 /\ InitBilling /\ InitExec /\ InitMeter

SpecExpiry == InitExpiry /\ [][NextExpiry]_vars

InitSnapshots == now = 0 /\ InitBilling /\ InitExec /\ InitMeter

SpecSnapshots == InitSnapshots /\ [][NextSnapshots]_vars

(***************************************************************************)
(* Properties of the event log and of the billing loop                     *)
(***************************************************************************)
\* C1: at-least-once delivery. An entry that readFromConsumerGroup delivered
\* to the billing group, that was not acknowledged and that no loop still
\* holds, is returned again by a subsequent readFromConsumerGroup call: it is
\* in the answer the next XREADGROUP of the group gives.
C1_UnackedIsRedelivered ==
    \A id \in Abandoned : id \in Range(XReadGroup(BatchSize))

\* C2: processUsageLogs acknowledges an entry only after the realtime-metrics
\* update of that entry completed without throwing; an entry whose update
\* threw is not acknowledged and stays in the pending set of the group.
C2_AckOnlyAfterUpdate ==
    /\ acked \subseteq updatedOk
    /\ \A l \in Loops : lpc[l] = "ack" => Head(batch[l]) \in updatedOk
    /\ updateThrew \cap acked = {}
    /\ updateThrew \subseteq pending

\* C2 witness: the update of one entry threw and the entry is pending, while
\* another entry of the stream was updated and acknowledged
C2_Witness ==
    /\ updateThrew # {}
    /\ acked # {}
    /\ updateThrew \subseteq pending

\* C3: idempotent acknowledgment. An acknowledged entry is never returned
\* again by readFromConsumerGroup: no batch a loop holds contains it (the
\* loop that acknowledged it has moved past it, so only a later read could
\* have put it there).
C3_AckedNeverReturned ==
    \A id \in acked : id \notin InFlight

\* C3 witness: an entry was acknowledged, and a later XREADGROUP returned
\* entries, which a loop is now processing
C3_Witness ==
    /\ readAfterAck
    /\ \E l \in Loops : lpc[l] = "process" /\ batch[l] # <<>>

(***************************************************************************)
(* Properties of the snapshot materialization                              *)
(***************************************************************************)
SnapshotKey(sn) == <<sn.userId, sn.apiId, sn.period, sn.periodStart>>

\* C4: in every reachable state there is at most one UsageSnapshot per
\* (userId, apiId, period, periodStart).
C4_OneSnapshotPerWindow ==
    \A i, j \in DOMAIN snapshots :
        i # j => SnapshotKey(snapshots[i]) # SnapshotKey(snapshots[j])

HourlySnapshotsOf(hourStart) ==
    SelectSeq(snapshots, LAMBDA sn : sn.period = "hourly" /\ sn.periodStart = hourStart)

\* the hour window starting at hourStart has one hourly snapshot for every
\* (userId, apiId) that has records in it, and no two for the same one
MaterializedOnce(hourStart) ==
    LET sn == HourlySnapshotsOf(hourStart)
        recs == InWindow(hourStart, hourStart + MinutesPerHour)
    IN  /\ sn # <<>>
        /\ \A i, j \in DOMAIN sn : i # j => SnapshotKey(sn[i]) # SnapshotKey(sn[j])
        /\ {<<usageLogs[n].userId, usageLogs[n].apiId>> : n \in recs}
              = {<<sn[i].userId, sn[i].apiId>> : i \in DOMAIN sn}

\* C5: for every hour window that has ended and was materialized without
\* duplication, the sum of requestCount over the hourly snapshots of that
\* window equals the number of UsageRecords with timestamp in the window.
C5_HourlySumMatchesRecords ==
    \A h \in 0..MaxHour :
        LET hourStart == h * MinutesPerHour IN
        (now >= hourStart + MinutesPerHour /\ MaterializedOnce(hourStart))
            => SumRequestCount(HourlySnapshotsOf(hourStart))
                  = Cardinality(InWindow(hourStart, hourStart + MinutesPerHour))

(***************************************************************************)
(* Properties of RuntimeExecutor.executeApi                                *)
(***************************************************************************)
ExecPositions ==
    {"idle", "fetch", "prepare", "build", "build_wait", "create", "start",
     "wait", "logs", "remove", "rc_catch", "finally", "done"}

\* C6: executeApi never throws or rejects: whatever the outcome of each step,
\* a call that settles resolves to a result object carrying success and the
\* executionId of the call (an error message exactly when success is false).
C6_NeverThrows ==
    \A c \in Calls :
        /\ epc[c] \in ExecPositions
        /\ epc[c] = "done" =>
              /\ result[c] # NoResult
              /\ result[c].executionId = executionId[c]
              /\ executionId[c] # 0
              /\ result[c].success = (result[c].error = "none")

\* C6 witness: a call failed in runInContainer, the forced removal of its
\* container and the removal of its workspace failed as well, and the call
\* still resolved to a failure object
C6_Witness ==
    \E c \in Calls :
        /\ epc[c] = "done"
        /\ ~result[c].success
        /\ executionId[c] \in workspaces
        /\ executionId[c] \in containers

\* C7: when executeApi returns, its workspace directory, its built image and
\* its container have all been removed.
C7_ResourcesReclaimed ==
    \A c \in Calls :
        epc[c] = "done" =>
            /\ executionId[c] \notin workspaces
            /\ executionId[c] \notin images
            /\ executionId[c] \notin containers

\* C8: when the container exits with a nonzero status because the tenant code
\* crashed, executeApi returns success = false, an error message and the
\* executionId.
C8_CrashYieldsFailure ==
    \A c \in Calls :
        (epc[c] = "done" /\ exitKind[c] = "crash") =>
            /\ StatusCode(exitKind[c]) # 0
            /\ ~result[c].success
            /\ result[c].error # "none"
            /\ result[c].executionId = executionId[c]

\* C9: when the tenant code runs past the execution timeout, executeApi
\* returns success = false with an error that reports a timeout.
C9_TimeoutYieldsTimeoutError ==
    \A c \in Calls :
        (epc[c] = "done" /\ exitKind[c] = "timeout") =>
            /\ ~result[c].success
            /\ result[c].error = "timeout"

\* C10: every executeApi call eventually returns, even if the build stream
\* never ends.
C10_EveryCallReturns ==
    \A c \in Calls : (epc[c] = "fetch") ~> (epc[c] = "done")


CostExample ==
    [pricing |-> DefaultPricing, duration |-> 150, bytesIn |-> 1024, bytesOut |-> 512]

\* C18: calculateCost with duration = 150 ms, bytesIn = 1024, bytesOut = 512
\* and pricing {0.001, 0.0001, 0.000001} returns 0.001017: the unrounded
\* total 0.0010165 rounds up at the sixth decimal.
C18_ExampleCost ==
    (costResult # NoCost /\ costArgs = CostExample) => costResult = 1017

C18_Witness ==
    costResult # NoCost /\ costArgs = CostExample


(***************************************************************************)
(* Properties of trackUsage, logUsage and getApiPricing                    *)
(***************************************************************************)
\* C11: for every request handled through trackUsage the response is handed
\* to the original send before logUsage starts, and a persist or publish
\* failure inside logUsage never alters or fails that response nor escapes
\* the middleware as an unhandled error.
C11_ResponseBeforeMetering ==
    /\ \A r \in Requests :
          mpc[r] # "idle" => (sent[r] # 0 /\ sent[r] = mctx[r].statusCode)
    /\ unhandled = {}

\* a request whose logUsage call rejected after the response was handed over
C11_Witness ==
    \E r \in Requests :
        /\ logOutcome[r].kind = "rejected"
        /\ sent[r] = mctx[r].statusCode /\ sent[r] # 0

\* the event mirrors the record in the fields the claim names
Mirrors(event, record) ==
    /\ event.apiId = record.apiId
    /\ event.userId = record.userId
    /\ event.executionId = record.executionId
    /\ event.cost = record.cost

\* C12: persist-then-publish. Every event in the stream was preceded by the
\* durable write of the UsageRecord it mirrors (same apiId, userId,
\* executionId, cost); if the durable write fails, no event is appended for
\* that call.
C12_PersistThenPublish ==
    /\ \A i \in DOMAIN stream :
          \E j \in DOMAIN usageLogs : Mirrors(stream[i], usageLogs[j])
    /\ \A r \in Requests :
          (mpc[r] \in {"publish", "done"} /\ writes[r] = 0)
              => (appends[r] = 0 /\ \A i \in DOMAIN stream : stream[i].executionId # r)

\* one call published its event, the save of another one failed
C12_Witness ==
    /\ \E r \in Requests : appends[r] = 1
    /\ \E r \in Requests : logOutcome[r].error = "save failed"

\* the logUsage calls that returned a record
Returned == {r \in Requests : logOutcome[r].kind = "returned"}

\* C13: each successful logUsage call performs exactly one durable write and
\* exactly one append; N concurrent logUsage calls that succeed produce
\* exactly N appends.
C13_OneWriteOneAppend ==
    /\ \A r \in Returned : writes[r] = 1 /\ appends[r] = 1
    /\ Len(stream) = Cardinality(Returned)

\* every call of the model succeeded
C13_Witness ==
    Returned = Requests /\ Len(stream) = MaxEvents

\* C14: if appending the event to the stream fails, logUsage rejects with
\* that same error instead of returning a UsageRecord.
C14_PublishFailureRejects ==
    \A r \in Requests :
        (mpc[r] = "done" /\ writes[r] = 1 /\ appends[r] = 0)
            => logOutcome[r] = [kind |-> "rejected", error |-> "xadd failed"]

C14_Witness ==
    \E r \in Requests : mpc[r] = "done" /\ writes[r] = 1 /\ appends[r] = 0

\* C15: getApiPricing never fails: on a cache miss, a lookup error or an
\* unknown API it returns the default pricing constants, so pricing
\* resolution never makes logUsage fail.
C15_PricingNeverFails ==
    \A r \in Requests :
        mpc[r] \notin {"idle", "queued", "pricing"}
            => (pricingOf[r] = DefaultPricing /\ logOutcome[r].kind # "rejected")

\* a call whose lookup failed went on with the default pricing
C15_Witness ==
    \E r \in Requests :
        lookedUp[r] /\ refreshedAt[r] = -1 /\ mpc[r] = "save"

RECURSIVE MaxOf(_)
MaxOf(S) ==
    IF S = {} THEN -1
    ELSE LET x == CHOOSE y \in S : TRUE
             m == MaxOf(S \ {x})
         IN  IF x > m THEN x ELSE m

\* C16: a getApiPricing call that finds a cache entry younger than 5 minutes
\* returns without any lookup; once the entry is 5 minutes old or older the
\* call performs a lookup, and a successful lookup replaces the entry with
\* one stamped with the time of the lookup.
C16_CacheFreshness ==
    /\ \A r \in Requests :
          /\ (ageAtCall[r] >= 0 /\ ageAtCall[r] < CacheExpiry) => ~lookedUp[r]
          /\ ageAtCall[r] >= CacheExpiry => lookedUp[r]
    /\ \A a \in Apis :
          pricingCache[a].timestamp =
              MaxOf({refreshedAt[r] : r \in {q \in Requests : mctx[q].apiId = a}})

\* a call found an expired entry, looked the pricing up and replaced it
C16_Witness ==
    \E r \in Requests :
        /\ ageAtCall[r] >= CacheExpiry
        /\ refreshedAt[r] >= 0
        /\ pricingCache[mctx[r].apiId].timestamp = refreshedAt[r]


(***************************************************************************)
(* Properties of BillingWorker.start and stop                              *)
(***************************************************************************)
\* processLoop coroutines of worker w that are alive
LoopsOf(w) == {l \in Loops : owner[l] = w}

\* C19: for one BillingWorker instance at most one processing loop is active
\* at any time, under every interleaving of start() and stop() calls.
C19_OneLoopPerWorker ==
    \A w \in Workers : Cardinality(LoopsOf(w)) <= 1

\* a step of a start() call on worker w
StartCall(w) == Start(w) \/ StartWhileRunning(w)

\* C20: calling start() on a worker that is already Running changes nothing:
\* no createConsumerGroup call is made, no loop is launched, and isRunning
\* stays true.
C20_StartWhileRunningIsNoOp ==
    [][\A w \in Workers :
          (isRunning[w] /\ StartCall(w))
              => /\ starting' = starting
                 /\ groupExists' = groupExists /\ lastDelivered' = lastDelivered
                 /\ owner' = owner /\ lpc' = lpc
                 /\ isRunning'[w]]_vars

\* start() was called on a running worker, which still has its one loop
C20_Witness ==
    \E w \in Workers :
        /\ w \in noopStarts
        /\ isRunning[w]
        /\ starting[w] = 0
        /\ Cardinality(LoopsOf(w)) = 1


\* C21: after stop() is called and no later start() occurs, the processing
\* loop issues no further readFromConsumerGroup call once the iteration in
\* progress has ended (it exits at its next isRunning test), and no loop is
\* launched for the worker.
C21_NoIterationAfterStop ==
    [][\A w \in Workers :
          (lastCall[w] = "stop" /\ lastCall'[w] = "stop")
              => /\ \A l \in Loops :
                       (owner[l] = w /\ lpc[l] = "sleep") => lpc'[l] \in {"sleep", "none"}
                 /\ {l \in Loops : owner'[l] = w} \subseteq {l \in Loops : owner[l] = w}]_vars

C22_StopIsNotPreemptive ==
    [][\A l \in Loops :
          /\ \A id \in Range(batch[l]) \ Range(batch'[l]) :
                 id \in updatedOk' \cup updateThrew'
          /\ (lpc[l] # "none" /\ lpc'[l] = "none")
                 => (lpc[l] = "sleep" /\ batch[l] = <<>>)]_vars

\* the worker was stopped while its loop held a batch of two: the first
\* entry is acknowledged, the loop is at the second
C22_Witness ==
    \E l \in Loops :
        /\ owner[l] # 0 /\ ~isRunning[owner[l]]
        /\ lpc[l] = "ack"
        /\ Len(batch[l]) = 1
        /\ \E id \in acked : id < Head(batch[l])

\* C23: while the worker stays Running no failure inside an iteration (read,
\* update, acknowledgment) ends the loop: a loop ends only at its isRunning
\* test with the worker stopped, and after its wait a loop of a running
\* worker starts another iteration.
C23_FailuresDoNotEndLoop ==
    [][\A l \in Loops :
          /\ (lpc[l] # "none" /\ lpc'[l] = "none")
                 => (lpc[l] = "sleep" /\ ~isRunning[owner[l]])
          /\ (lpc[l] = "sleep" /\ lpc'[l] # "sleep" /\ isRunning[owner[l]])
                 => lpc'[l] = "read"]_vars

\* the update of an entry threw, and the loops went on to another iteration
C23_Witness ==
    /\ \E id \in updateThrew : id \in Abandoned
    /\ \E l \in Loops : owner[l] # 0 /\ isRunning[owner[l]] /\ lpc[l] = "read"

\* C24: createConsumerGroup is idempotent: called for a group that exists it
\* completes without error and leaves the group's last-delivered cursor and
\* its pending entries unchanged.
C24_CreateGroupIdempotent ==
    [][\A w \in Workers :
          (groupExists /\ StartEnsured(w))
              => (groupExists' /\ lastDelivered' = lastDelivered /\ pending' = pending)]_vars

\* both workers have ensured the group; it has pending entries and entries
\* it has not delivered
C24_Witness ==
    /\ groupExists
    /\ \A w \in Workers : isRunning[w]
    /\ pending # {}
    /\ lastDelivered < Len(stream)


Num(m, f) == IF f \in DOMAIN m THEN m[f].num ELSE 0

\* C26: the update of one entry is atomic: whatever a reader is answered,
\* requests = errors + success, and the increments of an entry are in the
\* answer all together or not at all (every field stands for the same number
\* of entries).
C26_UpdateIsAtomic ==
    response # NoResponse =>
        LET m == response.metrics
            n == Num(m, "requests")
        IN  /\ n = Num(m, "errors") + Num(m, "success")
            /\ Num(m, "bytes_in") = n * RequestSize
            /\ Num(m, "bytes_out") = n * ResponseSize
            /\ Num(m, "cost") = n * EntryCost
            /\ Num(m, "duration") = n * EntryDuration

\* the entries whose update of the hash of a key has completed
Updates(key) == {id \in updatedOk : MetricsKey(stream[id]) = key}

\* what the pipeline of entry e adds to field f
RECURSIVE SumBy(_, _)
SumBy(cmds, f) ==
    IF cmds = <<>> THEN 0
    ELSE (IF Head(cmds).op = "hincrby" /\ Head(cmds).field = f THEN Head(cmds).by ELSE 0)
         + SumBy(Tail(cmds), f)

\* what the pipelines of a set of entries add to field f
RECURSIVE SumOfIncrements(_, _)
SumOfIncrements(ids, f) ==
    IF ids = {} THEN 0
    ELSE LET id == CHOOSE i \in ids : TRUE
         IN  SumBy(PipelineCommands(stream[id]), f) + SumOfIncrements(ids \ {id}, f)

\* C27: no increment is lost under concurrent updates: while no pipeline on
\* a key is part-way through and the key has not expired, every field of its
\* hash equals the sum of the increments of the completed updates.
C27_NoLostIncrement ==
    \A key \in Users \X Apis :
        (/\ key \notin lapsed
         /\ \A l \in MidPipeline : MetricsKey(stream[Head(batch[l])]) # key)
            => \A f \in MetricsFields :
                   HGet(metrics[key], f) = SumOfIncrements(Updates(key), f)

\* two pipelines of different workers went over the same key at once and
\* both have completed
C27_Witness ==
    \E key \in overlapped :
        /\ MidPipeline = {}
        /\ key \notin lapsed
        /\ Cardinality(Updates(key)) = 2
        /\ HGet(metrics[key], "requests") = 2

\* C28: GET /metrics of a key that does not exist (never updated, or
\* expired) answers every counter field, each equal to zero.
C28_AbsentKeyReadsZero ==
    [][\A w \in Workers : \A key \in Users \X Apis :
          (GetMetrics(w, key) /\ metrics[key] = EmptyHash)
              => \A f \in MetricsFields :
                     f \in DOMAIN response'.metrics /\ response'.metrics[f].num = 0]_vars

\* an update of the hash of a key completes in this step
UpdateCompletes(key) ==
    \E id \in updatedOk' \ updatedOk : MetricsKey(stream[id]) = key

\* C29: every update sets the time to live of the key to one hour from the
\* update; until the next update completes the key stays, with that expiry
\* time, as long as the clock has not reached it, and is gone when it has.
C29_TtlResetOnUpdate ==
    [][\A key \in Users \X Apis :
          /\ UpdateCompletes(key)
                 => (metrics'[key] # EmptyHash /\ expiresAt'[key] = now + MetricsTtl)
          /\ (metrics[key] # EmptyHash /\ expiresAt[key] # NoTtl /\ ~UpdateCompletes(key))
                 => IF now' < expiresAt[key]
                       THEN metrics'[key] # EmptyHash /\ expiresAt'[key] = expiresAt[key]
                       ELSE metrics'[key] = EmptyHash
          /\ (metrics'[key] # EmptyHash /\ expiresAt'[key] # NoTtl)
                 => now' < expiresAt'[key]]_vars

\* a key updated twice, the second time half an hour into its time to live,
\* is alive an hour after the clock started and expires an hour after the
\* second update
C29_Witness ==
    \E key \in Users \X Apis :
        /\ Cardinality(Updates(key)) = 2
        /\ now = 1 + MinutesPerHour
        /\ HGet(metrics[key], "requests") = 2
        /\ expiresAt[key] = now + (MinutesPerHour \div 2)


(***************************************************************************)
(* Properties of the pipeline as a whole                                   *)
(***************************************************************************)
\* C31: with several workers on the billing group no entry is being
\* processed by two of them at once: the batches two loops hold have no
\* entry in common.
C31_OneConsumerAtATime ==
    \A l1, l2 \in Loops :
        l1 # l2 => Range(batch[l1]) \cap Range(batch[l2]) = {}

\* loops of two workers hold a batch each at the same time
C31_Witness ==
    \E l1, l2 \in Loops :
        /\ owner[l1] # 0 /\ owner[l2] # 0 /\ owner[l1] # owner[l2]
        /\ batch[l1] # <<>> /\ batch[l2] # <<>>


\* C32: every event of the stream is read by the billing group once a worker
\* runs, the events appended before the group was first created included:
\* once the group exists every entry of the stream either has been delivered
\* to a loop (it is pending or acknowledged) or is ahead of the cursor of
\* the group, where the next XREADGROUP finds it.
C32_EveryEventIsDeliverable ==
    groupExists =>
        \A id \in 1..Len(stream) :
            id \in pending \cup acked \/ id > lastDelivered


\* C33: for each response sent through trackUsage logUsage is invoked once,
\* whether the handler answered with res.send or with res.json: no response
\* has more than one logUsage call.
C33_OneLogUsagePerResponse ==
    \A r \in Requests : logUsageCalls[r] <= 1


C35_FailureDoesNotSkipRest ==
    [][\A l \in Loops :
          (\/ lpc[l] = "process" /\ Head(batch[l]) \in updateThrew' \ updateThrew
           \/ lpc[l] = "ack" /\ <<lpc[l], batch[l]>> # <<lpc'[l], batch'[l]>>)
              => /\ batch'[l] = Tail(batch[l])
                 /\ Tail(batch[l]) # <<>> => lpc'[l] = "process"]_vars

\* a loop is at the acknowledgment of the last entry of its batch, updated,
\* after the update of the entry before it threw or its acknowledgment
\* failed
C35_Witness ==
    \E l \in Loops :
        /\ lpc[l] = "ack" /\ Len(batch[l]) = 1
        /\ Head(batch[l]) \in updatedOk
        /\ (Head(batch[l]) - 1) \in updateThrew \cup ((updatedOk \cap pending) \ acked)


\* C36: a worker goes from Stopped to Running, and a loop of it is launched,
\* only as a start() call of it comes back from a createConsumerGroup that
\* succeeded; no loop is alive (so none reads) while the group does not
\* exist.
C36_GroupEnsuredBeforeLoop ==
    [][/\ \A w \in Workers :
             (\/ ~isRunning[w] /\ isRunning'[w]
              \/ \E l \in Loops : owner[l] # w /\ owner'[l] = w)
                 => /\ starting[w] > 0 /\ starting'[w] = starting[w] - 1
                    /\ groupExists'
       /\ \A l \in Loops : lpc'[l] # "none" => groupExists']_vars

\* a start() of the worker was rejected, a later one came through: the
\* worker runs and its loop is at its read
C36_Witness ==
    \E w \in startFailures :
        /\ isRunning[w] /\ groupExists
        /\ \E l \in Loops : owner[l] = w /\ lpc[l] = "read"


\* the ids a step adds to or removes from a set of resources
Changed(before, after) == (before \ after) \cup (after \ before)

\* C37: concurrent executeApi calls share no resource: the executionIds of
\* two calls differ, so do the workspace, the image tag and the container
\* name made from them, and a workspace, image or container is created or
\* removed only by a step of the one call that has its id.
C37_CallsShareNoResource ==
    [][/\ \A c1, c2 \in Calls :
             (c1 # c2 /\ executionId'[c1] # 0) => executionId'[c1] # executionId'[c2]
       /\ \A id \in Changed(workspaces, workspaces') \cup Changed(images, images')
                       \cup Changed(containers, containers') :
             \E c \in Calls :
                 /\ executionId[c] = id /\ epc'[c] # epc[c]
                 /\ \A d \in Calls \ {c} : executionId[d] # id /\ epc'[d] = epc[d]]_vars

\* one call has returned and its workspace is removed, while the workspace
\* and the container of another call, still running, are there
C37_Witness ==
    \E c1, c2 \in Calls :
        /\ c1 # c2
        /\ epc[c1] = "done" /\ executionId[c1] \notin workspaces
        /\ epc[c2] \notin {"idle", "done"}
        /\ executionId[c2] \in workspaces /\ executionId[c2] \in containers


LookupFailed(q) ==
    lookedUp[q] /\ mpc[q] \notin {"idle", "queued", "pricing"} /\ refreshedAt[q] = -1

\* a lookup for api a has succeeded less than cacheExpiry before t
FreshlyResolved(a, t) ==
    \E p \in Requests : /\ mctx[p].apiId = a
                        /\ refreshedAt[p] # -1
                        /\ t - refreshedAt[p] < CacheExpiry

\* C39: a lookup that fails (query error or api not found) leaves the
\* pricing cache as it was; the next getApiPricing call for an api whose
\* lookup has failed issues the lookup again, unless a lookup for that api
\* has succeeded in the meantime and is still fresh.
C39_FailureLeavesCacheUnchanged ==
    [][\A r \in Requests :
          /\ (mpc[r] = "pricing" /\ mpc'[r] # "pricing" /\ refreshedAt'[r] = -1)
                 => pricingCache' = pricingCache
          /\ (/\ mpc[r] = "queued" /\ mpc'[r] # "queued"
              /\ \E q \in Requests : /\ q # r
                                      /\ mctx[q].apiId = mctx[r].apiId
                                      /\ LookupFailed(q)
              /\ ~FreshlyResolved(mctx[r].apiId, now))
                 => mpc'[r] = "pricing" /\ lookedUp'[r]]_vars

\* the lookup of one request failed and it went on with the default pricing;
\* a request for the same api found no entry in the cache, looked up again
\* and its lookup, settled later, succeeded
C39_Witness ==
    \E q, r \in Requests :
        /\ q # r /\ mctx[q].apiId = mctx[r].apiId
        /\ LookupFailed(q) /\ pricingOf[q] = DefaultPricing
        /\ lookedUp[r] /\ ageAtCall[r] = -1
        /\ refreshedAt[r] > mlog[q].timestamp
        /\ pricingCache[mctx[r].apiId].timestamp = refreshedAt[r]

=============================================================================
